---- MODULE Spec2Model ----
(***************************************************************************)
(* The TTL-aware key-value cache layer of projectx (package database):     *)
(* BoltDatabase and its operations over a transactional engine (bolt).     *)
(* The engine is an external collaborator; of it only the contract is      *)
(* modelled: an Update/Batch transaction commits atomically, a View        *)
(* transaction reads the state committed when it began.                    *)
(*                                                                         *)
(* Byte strings are sequences of one-character strings.                    *)
(***************************************************************************)
EXTENDS Integers, Sequences, FiniteSets, TLC

\* ---------------------------------------------------------------- bounds

\* db.Batch holds at most MaxBatch calls before its transaction runs.
MaxBatch == 2
\* The clock advances at most MaxTick seconds past its initial value.
MaxTick == 2
\* SetCached is called with seconds in 0..MaxTtl.
MaxTtl == 1

\* The clock at Init: a device that booted without a real-time clock (Unix
\* time near 0) and a device with the wall clock set.
ClockStarts == {60, 1700000000}
Keys == {"k1", "k2"}
Payloads == {<<>>, <<"x">>}
\* Values written with the plain Set family into a bucket that GetCached reads
\* ("direct low-level writes"): empty, shorter than 11 bytes, an unparsable
\* prefix, a literal zero expiry, a signed (negative) expiry.
RawValues ==
  { <<>>,
    <<"x">>,
    <<"z","z","z","z","z","z","z","z","z","z","|","x">>,
    <<"0","0","0","0","0","0","0","0","0","0","|","x">>,
    <<"-","0","0","0","0","0","0","0","0","1","|","x">> }
Readers == {"r1"}
\* The CreateBackup calls that may run at a time: the one MaintenanceRefreshHandler
\* makes on start (or a caller's own), and those of its ticks.
BackupCalls == {"first", "tick1", "tick2"}

\* ------------------------------------------------------- program constants

\* ParseCacheItem: item[0:10] is the expiry, item[11:] the payload, and an item
\* shorter than 11 bytes is malformed.
ExpiryWidth == 10
MinItemLen == 11
PayloadOffset == 11

VARIABLES
  now,        \* the clock, Unix seconds (util.NowInt64)
  store,      \* the engine's committed state: bucket -> (key -> value)
  th,         \* each GetCached caller's position and locals
  lastSet,    \* the SetCached call that committed last, while no write followed it
  sw,         \* CacheCleanup's position and locals
  batchQ,     \* the calls db.Batch holds for its next transaction
  sc,         \* a ForEach or Seek caller's position and View transaction
  bk,         \* each CreateBackup call's position and View transaction
  backupFile, \* the backup file
  conn,       \* the engine connection d.db: "open" or "closed"
  quit,       \* the channel d.quit
  loop,       \* MaintenanceRefreshHandler's position
  closer,     \* the Close caller's position
  boot,       \* InitCacheDB's position and what it returned
  primary,    \* the primary file while no connection holds it
  req         \* a foreground caller's call in progress and what it returned

cacheVars == <<th, lastSet>>
sweepVars == <<sw>>
batchVars == <<batchQ>>
scanVars == <<sc>>
backupVars == <<bk, backupFile>>
lifeVars == <<conn, quit, loop, closer>>
bootVars == <<boot, primary>>
reqVars == <<req>>
vars == <<now, store, cacheVars, sweepVars, batchVars, scanVars, backupVars, lifeVars, bootVars,
          reqVars>>

\* What an operation of one component leaves alone in the others.
exceptCache == <<sweepVars, batchVars, scanVars, backupVars, lifeVars, bootVars, reqVars>>
exceptSweep == <<cacheVars, scanVars, backupVars, lifeVars, bootVars, reqVars>>
exceptScan == <<cacheVars, sweepVars, batchVars, backupVars, lifeVars, bootVars, reqVars>>
exceptBackup == <<cacheVars, sweepVars, batchVars, scanVars, lifeVars, bootVars, reqVars>>
exceptClock == <<store, cacheVars, sweepVars, batchVars, scanVars, backupVars, lifeVars, bootVars, reqVars>>

\* ------------------------------------------------------------ TTL codec

Digit == <<"0", "1", "2", "3", "4", "5", "6", "7", "8", "9">>
DigitChars == {Digit[i] : i \in 1..10}
DigitVal(c) == (CHOOSE i \in 1..10 : Digit[i] = c) - 1

RECURSIVE ItoaNat(_)
ItoaNat(n) == IF n < 10 THEN <<Digit[n + 1]>>
              ELSE Append(ItoaNat(n \div 10), Digit[(n % 10) + 1])

\* strconv.Itoa: decimal, a minus sign for a negative number, no padding.
Itoa(n) == IF n < 0 THEN <<"-">> \o ItoaNat(0 - n) ELSE ItoaNat(n)

RECURSIVE ParseUint(_)
\* The value of a non-empty string of decimal digits.
ParseUint(s) == IF Len(s) = 1 THEN DigitVal(s[1])
                ELSE 10 * ParseUint(SubSeq(s, 1, Len(s) - 1)) + DigitVal(s[Len(s)])

\* strconv.ParseInt(s, 10, 64) with its error dropped: an optional sign, then
\* one or more decimal digits; 0 on a syntax error.
ParseInt(s) ==
  LET signed == Len(s) > 0 /\ s[1] \in {"+", "-"}
      body == IF signed THEN SubSeq(s, 2, Len(s)) ELSE s
      ok == Len(body) > 0 /\ \A i \in 1..Len(body) : body[i] \in DigitChars
  IN IF ~ok THEN 0
     ELSE IF signed /\ s[1] = "-" THEN 0 - ParseUint(body)
     ELSE ParseUint(body)

ParseCacheItem(item) ==
  IF Len(item) < MinItemLen THEN [expire |-> 0, payload |-> <<>>]
  ELSE [expire |-> ParseInt(SubSeq(item, 1, ExpiryWidth)),
        payload |-> SubSeq(item, PayloadOffset + 1, Len(item))]

\* The value SetCachedBytes stores, called at clock t.
CachedValue(t, seconds, value) == Itoa(t + seconds) \o <<"|">> \o value

\* ------------------------------------------------------- engine: buckets

BucketGet(bkt, k) == IF k \in DOMAIN bkt THEN bkt[k] ELSE <<>>
BucketPut(bkt, k, v) == [x \in DOMAIN bkt \cup {k} |-> IF x = k THEN v ELSE bkt[x]]
BucketDelete(bkt, k) == [x \in DOMAIN bkt \ {k} |-> bkt[x]]

Put(st, b, k, v) == [st EXCEPT ![b] = BucketPut(st[b], k, v)]
Del(st, b, k) == [st EXCEPT ![b] = BucketDelete(st[b], k)]

EmptyBucket == [x \in {} |-> <<>>]

HasUnexpired(st, b, k) ==
  /\ Len(BucketGet(st[b], k)) > 0
  /\ ParseCacheItem(BucketGet(st[b], k)).expire >= now

\* What Has returns: whether a non-empty value is stored under the key.
Has(st, b, k) == Len(BucketGet(st[b], k)) > 0

\* ------------------------------------------------------------ positions

Idle == [pc |-> "idle", b |-> "", k |-> "", read |-> <<>>, val |-> <<>>, err |-> ""]
NoWrite == [op |-> "none", b |-> "", k |-> "", seconds |-> 0, v |-> <<>>, at |-> 0]
SweepIdle == [pc |-> "idle", now |-> 0, i |-> 0, toRemove |-> {}, pre |-> <<>>]
\* Of a scan, coalesced tells that a batch of several calls committed meanwhile.
ScanIdle == [pc |-> "idle", op |-> "", b |-> "", prefix |-> <<>>, snap |-> <<>>,
             left |-> {}, seen |-> <<>>, coalesced |-> FALSE]

BackupIdle == [pc |-> "idle", snap |-> <<>>, left |-> {}, changed |-> FALSE]
\* A database with no bucket.
NoBuckets == [b \in {} |-> EmptyBucket]
\* A backup file that does not exist.
NoFile == [exists |-> FALSE, data |-> NoBuckets]
\* The primary file: absent, or present and either a valid database holding
\* data or not one (corrupt, or cut short). While a connection is open the
\* file is the engine's and its state is the variable store.
NoPrimary == [exists |-> FALSE, valid |-> FALSE, data |-> NoBuckets]
Corrupt == [exists |-> TRUE, valid |-> FALSE, data |-> NoBuckets]
InUse == [exists |-> TRUE, valid |-> TRUE, data |-> NoBuckets]
\* InitCacheDB before its call, and after it returned the handle and no error.
BootStart == [pc |-> "start", outcome |-> "none", i |-> 0, handle |-> "none", err |-> "none",
              restore |-> "none"]
BootDone == [pc |-> "returned", outcome |-> "ok", i |-> 0, handle |-> "cacheDatabase",
             err |-> "nil", restore |-> "none"]

\* No call in progress.
NoCall == [pc |-> "idle", op |-> "none"]

\* ----------------------------------------------------------- operations

\* SetCachedBytes (SetCached, SetCachedBool and SetCachedObject wrap it).
SetCachedBytes(b, seconds, k, value) ==
  /\ conn = "open"
  /\ store' = Put(store, b, k, CachedValue(now, seconds, value))
  /\ lastSet' = [op |-> "SetCached", b |-> b, k |-> k, seconds |-> seconds,
                   v |-> value, at |-> now]
  /\ UNCHANGED <<now, th, exceptCache>>

\* SetBytes (Set and SetObject wrap it).
SetBytes(b, k, value) ==
  /\ conn = "open"
  /\ store' = Put(store, b, k, value)
  /\ lastSet' = NoWrite
  /\ UNCHANGED <<now, th, exceptCache>>

Delete(b, k) ==
  /\ conn = "open"
  /\ store' = Del(store, b, k)
  /\ lastSet' = NoWrite
  /\ UNCHANGED <<now, th, exceptCache>>

GetCachedInvalidNever(expire) == FALSE

\* GetCachedBytes' two tests on the decoded expiry.
GetCachedExpired(expire, t) == expire > 0 /\ expire < t
GetCachedInvalid(expire) == expire = 0

\* GetCachedBytes up to its delete: the View transaction, the decoding and the
\* tests against the clock.
GetCachedView(t, b, k) ==
  /\ th[t].pc = "idle"
  /\ conn = "open"
  /\ LET value == BucketGet(store[b], k)
         item == ParseCacheItem(value)
     IN th' = [th EXCEPT ![t] =
          IF Len(value) = 0
            THEN [pc |-> "ret", b |-> b, k |-> k, read |-> value, val |-> <<>>, err |-> "nil"]
          ELSE IF GetCachedExpired(item.expire, now)
            THEN [pc |-> "delete", b |-> b, k |-> k, read |-> value, val |-> <<>>,
                  err |-> "Key Expired"]
          ELSE IF GetCachedInvalid(item.expire)
            THEN [pc |-> "delete", b |-> b, k |-> k, read |-> value, val |-> <<>>,
                  err |-> "Invalid Key"]
          ELSE [pc |-> "ret", b |-> b, k |-> k, read |-> value, val |-> item.payload,
                err |-> "nil"]]
  /\ UNCHANGED <<now, store, lastSet, exceptCache>>

\* The d.Delete(bucket, key) of GetCachedBytes: an Update transaction of its own.
GetCachedDelete(t) ==
  /\ th[t].pc = "delete"
  /\ store' = IF conn = "open" THEN Del(store, th[t].b, th[t].k) ELSE store
  /\ lastSet' = NoWrite
  /\ th' = [th EXCEPT ![t].pc = "ret"]
  /\ UNCHANGED <<now, exceptCache>>

Return(t) ==
  /\ th[t].pc = "ret"
  /\ th' = [th EXCEPT ![t] = Idle]
  /\ UNCHANGED <<now, store, lastSet, exceptCache>>

\* GetBytes (Get wraps it): one View transaction; err is the transaction's.
GetBytes(t, b, k) ==
  /\ th[t].pc = "idle"
  /\ conn = "open"
  /\ LET value == BucketGet(store[b], k)
     IN th' = [th EXCEPT ![t] =
          [pc |-> "got", b |-> b, k |-> k, read |-> value, val |-> value, err |-> "nil"]]
  /\ UNCHANGED <<now, store, lastSet, exceptCache>>

GetReturn(t) ==
  /\ th[t].pc = "got"
  /\ th' = [th EXCEPT ![t] = Idle]
  /\ UNCHANGED <<now, store, lastSet, exceptCache>>

Tick ==
  /\ \E s \in ClockStarts : s <= now /\ now < s + MaxTick
  /\ now' = now + 1
  /\ UNCHANGED exceptClock

\* ------------------------------------------------------- engine: db.Batch

\* One call held by db.Batch: who waits for it, and the function it passed,
\* BatchSet's puts (m) or BatchDelete's deletes (keys).
BatchCall(who, kind, b, m, keys) ==
  [who |-> who, kind |-> kind, b |-> b, m |-> m, keys |-> keys]

BatchSetFirstOnly(bkt, m) ==
  LET k == CHOOSE x \in DOMAIN m : TRUE IN BucketPut(bkt, k, m[k])

\* The function BatchSet passes to db.Batch, applied to the bucket.
BatchSetFn(bkt, m) ==
  [x \in DOMAIN bkt \cup DOMAIN m |-> IF x \in DOMAIN m THEN m[x] ELSE bkt[x]]

BatchDeleteFnNone(bkt, keys) == bkt

BatchDeleteFnOne(bkt, keys) ==
  IF keys \cap DOMAIN bkt = {} THEN bkt
  ELSE LET k == CHOOSE x \in keys \cap DOMAIN bkt : TRUE IN [x \in DOMAIN bkt \ {k} |-> bkt[x]]

\* The function BatchDelete passes to db.Batch, applied to the bucket.
BatchDeleteFn(bkt, keys) == [x \in DOMAIN bkt \ keys |-> bkt[x]]

ApplyCall(st, c) ==
  [st EXCEPT ![c.b] = IF c.kind = "set" THEN BatchSetFn(@, c.m)
                      ELSE BatchDeleteFn(@, c.keys)]

RECURSIVE ApplyCalls(_, _)
\* The calls of one batch run in their order inside one transaction.
ApplyCalls(st, q) ==
  IF q = <<>> THEN st ELSE ApplyCalls(ApplyCall(st, Head(q)), Tail(q))

\* --------------------------------------------------------- CacheCleanup

\* The designated cache buckets, in the order CacheCleanup visits them.
CacheBuckets == <<"cache", "images">>

CleanupRemovesAnyPast(expire, t) == expire < t

\* CacheCleanup's test on a decoded expiry.
CleanupRemoves(expire, t) == (expire > 0 /\ expire < t) \/ expire = 0

\* CacheCleanup's position after bucket i: the next bucket, or the end.
SweepAfter(s) ==
  IF s.i < Len(CacheBuckets)
    THEN [s EXCEPT !.pc = "exists", !.i = s.i + 1, !.toRemove = {}]
    ELSE [s EXCEPT !.pc = "done", !.toRemove = {}]

\* CacheCleanup reads the clock once, before the first bucket.
CacheCleanupStart ==
  /\ sw.pc = "idle"
  /\ sw' = [pc |-> "exists", now |-> now, i |-> 1, toRemove |-> {}, pre |-> store]
  /\ UNCHANGED <<now, store, batchQ, exceptSweep>>

\* d.BucketExists(bucket): a View transaction.
CacheCleanupExists ==
  /\ sw.pc = "exists"
  /\ sw' = IF conn = "open" /\ CacheBuckets[sw.i] \in DOMAIN store
             THEN [sw EXCEPT !.pc = "scan"]
           ELSE SweepAfter(sw)
  /\ UNCHANGED <<now, store, batchQ, exceptSweep>>

\* d.ForEach(bucket, ...): one View transaction collects toRemove; a non-empty
\* toRemove goes to BatchDelete, which hands its function to db.Batch and waits.
CacheCleanupScan ==
  /\ sw.pc = "scan"
  /\ LET b == CacheBuckets[sw.i]
         toRemove == IF conn = "open"
                       THEN {k \in DOMAIN store[b] :
                               CleanupRemoves(ParseCacheItem(store[b][k]).expire, sw.now)}
                       ELSE {}
     IN IF toRemove = {}
          THEN sw' = SweepAfter(sw) /\ UNCHANGED batchQ
          ELSE /\ sw' = [sw EXCEPT !.pc = "wait", !.toRemove = toRemove]
               /\ batchQ' = Append(batchQ,
                    BatchCall("sweep", "delete", b, EmptyBucket, toRemove))
  /\ UNCHANGED <<now, store, exceptSweep>>

CacheCleanupReturn ==
  /\ sw.pc = "done"
  /\ sw' = SweepIdle
  /\ UNCHANGED <<now, store, batchQ, exceptSweep>>

\* db.Batch runs the calls it holds in one Update transaction and wakes their
\* callers.
BatchRun ==
  /\ batchQ # <<>>
  /\ store' = IF conn = "open" THEN ApplyCalls(store, batchQ) ELSE store
  /\ batchQ' = <<>>
  /\ sw' = IF \E i \in 1..Len(batchQ) : batchQ[i].who = "sweep" THEN SweepAfter(sw) ELSE sw
  /\ lastSet' = NoWrite
  /\ sc' = IF sc.pc = "scan" /\ Len(batchQ) > 1
             THEN [sc EXCEPT !.coalesced = TRUE] ELSE sc
  /\ UNCHANGED <<now, th, backupVars, lifeVars, bootVars, reqVars>>

\* BatchSet and BatchDelete hand their function to db.Batch, which holds it
\* for its next transaction; the caller waits for that transaction.
BatchSet(b, m) ==
  /\ Len(batchQ) < MaxBatch
  /\ batchQ' = Append(batchQ, BatchCall("caller", "set", b, m, {}))
  /\ UNCHANGED <<now, store, cacheVars, sweepVars, scanVars, backupVars, lifeVars, bootVars, reqVars>>

BatchDelete(b, keys) ==
  /\ Len(batchQ) < MaxBatch
  /\ batchQ' = Append(batchQ, BatchCall("caller", "delete", b, EmptyBucket, keys))
  /\ UNCHANGED <<now, store, cacheVars, sweepVars, scanVars, backupVars, lifeVars, bootVars, reqVars>>

\* A caller calls BatchDelete(b, keys) and, when it has returned, calls it
\* again; pre, once and twice are the bucket before, between and after.
DeleteTwiceCall(b, keys) ==
  /\ req.pc = "idle"
  /\ Len(batchQ) < MaxBatch
  /\ req' = [pc |-> "first", op |-> "BatchDelete twice", b |-> b, keys |-> keys,
             pre |-> store[b], once |-> EmptyBucket, twice |-> EmptyBucket]
  /\ batchQ' = Append(batchQ, BatchCall("caller", "delete", b, EmptyBucket, keys))
  /\ UNCHANGED <<now, store, cacheVars, sweepVars, scanVars, backupVars, lifeVars, bootVars>>

DeleteTwiceAgain ==
  /\ req.pc = "first"
  /\ batchQ = <<>>
  /\ req' = [req EXCEPT !.pc = "second", !.once = store[req.b]]
  /\ batchQ' = Append(batchQ, BatchCall("caller", "delete", req.b, EmptyBucket, req.keys))
  /\ UNCHANGED <<now, store, cacheVars, sweepVars, scanVars, backupVars, lifeVars, bootVars>>

DeleteTwiceReturn ==
  /\ req.pc = "second"
  /\ batchQ = <<>>
  /\ req' = [req EXCEPT !.pc = "done", !.twice = store[req.b]]
  /\ UNCHANGED <<now, store, batchQ, cacheVars, sweepVars, scanVars, backupVars, lifeVars, bootVars>>

\* BatchSet(b, m) (or BatchSetBytes) when the engine's Put fails for the keys
\* in bad: the function returns the first such error, the transaction rolls
\* back and db.Batch hands the error to the caller.
BatchSetFailing(b, m, bad) ==
  /\ req.pc = "idle"
  /\ conn = "open"
  /\ bad # {}
  /\ bad \subseteq DOMAIN m
  /\ req' = [pc |-> "done", op |-> "BatchSet", b |-> b, bad |-> bad, err |-> "EngineFailure"]
  /\ UNCHANGED <<now, store, cacheVars, sweepVars, batchVars, scanVars, backupVars, lifeVars, bootVars>>

\* BatchDelete(b, keys) when the engine's Delete fails for the keys in bad:
\* the function drops the error, goes on to the next key and returns nil; the
\* transaction commits the deletes that went through.
BatchDeleteFailing(b, keys, bad) ==
  /\ req.pc = "idle"
  /\ conn = "open"
  /\ bad # {}
  /\ bad \subseteq keys
  /\ store' = [store EXCEPT ![b] = BatchDeleteFn(@, keys \ bad)]
  /\ req' = [pc |-> "done", op |-> "BatchDelete", b |-> b, bad |-> bad, err |-> "nil"]
  /\ UNCHANGED <<now, cacheVars, sweepVars, batchVars, scanVars, backupVars, lifeVars, bootVars>>

\* -------------------------------------------------------------------- Has

\* d.Has(b, k): one View transaction; ret is what it returns.
HasCall(b, k) ==
  /\ req.pc = "idle"
  /\ conn = "open"
  /\ req' = [pc |-> "done", op |-> "Has", b |-> b, k |-> k, ret |-> Has(store, b, k)]
  /\ UNCHANGED <<now, store, cacheVars, sweepVars, batchVars, scanVars, backupVars, lifeVars, bootVars>>

\* --------------------------------------------------------------- DBWriter

WriteAppends(old, p) == old \o p

\* The value DBWriter.Write puts under the writer's key: the bytes of this call.
WriteValue(old, p) == p

\* w.Write(p), for the writer AsWriter(b, k) returned: one Update transaction,
\* which on a closed connection returns the engine's error; n is len(p) either
\* way. pre is what the key held and open whether the transaction ran.
Write(b, k, p) ==
  /\ req.pc = "idle"
  /\ req' = [pc |-> "done", op |-> "Write", b |-> b, k |-> k, p |-> p, n |-> Len(p),
             err |-> IF conn = "open" THEN "nil" ELSE "EngineFailure",
             pre |-> BucketGet(store[b], k), open |-> conn = "open"]
  /\ store' = IF conn = "open"
                THEN Put(store, b, k, WriteValue(BucketGet(store[b], k), p))
                ELSE store
  /\ UNCHANGED <<now, cacheVars, sweepVars, batchVars, scanVars, backupVars, lifeVars, bootVars>>

\* --------------------------------------------------------- RecreateBucket

\* tx.DeleteBucket(bucket)
DeleteBucket(st, b) == [x \in DOMAIN st \ {b} |-> st[x]]

RecreateDropsOnly(st, b) == DeleteBucket(st, b)

\* What RecreateBucket's Update transaction commits for an existing bucket:
\* the drop and the create together.
RecreateTx(st, b) == [x \in DOMAIN st \cup {b} |-> IF x = b THEN EmptyBucket ELSE st[x]]

\* An Update that creates the bucket whether or not the drop succeeded.
RecreateCreatesMissing(st, b) == [err |-> "nil", st |-> RecreateTx(st, b)]

\* The Update of RecreateBucket: errDrop of tx.DeleteBucket for a bucket that
\* does not exist is returned by the function, so Update rolls back and hands
\* the error to the caller; otherwise the drop and the create are committed.
RecreateUpdate(st, b) ==
  IF b \in DOMAIN st
    THEN [err |-> "nil", st |-> RecreateTx(st, b)]
    ELSE [err |-> "bucket not found", st |-> st]

\* RecreateBucket(b): pre is what the bucket held; during tells that a
\* ForEach or Seek on the bucket was in progress.
RecreateBucket(b) ==
  /\ req.pc = "idle"
  /\ conn = "open"
  /\ req' = [pc |-> "done", op |-> "RecreateBucket", b |-> b,
             err |-> RecreateUpdate(store, b).err,
             pre |-> IF b \in DOMAIN store THEN store[b] ELSE EmptyBucket,
             during |-> sc.pc # "idle" /\ sc.b = b]
  /\ store' = RecreateUpdate(store, b).st
  /\ UNCHANGED <<now, cacheVars, sweepVars, batchVars, scanVars, backupVars, lifeVars, bootVars>>

\* The caller has its result and may call again.
CallReturn ==
  /\ req.pc = "done"
  /\ req' = NoCall
  /\ UNCHANGED <<now, store, cacheVars, sweepVars, batchVars, scanVars, backupVars, lifeVars, bootVars>>

\* ------------------------------------------------------- ForEach and Seek

\* Keys are byte strings, which the engine keeps in byte order.
KeyBytes(k) == CASE k = "k1" -> <<"k", "1">>
                 [] k = "k2" -> <<"k", "2">>
                 [] k = "k10" -> <<"k", "1", "0">>
                 [] k = "a" -> <<"a">>
                 [] k = "m" -> <<"m">>
Code(c) == CASE c = "0" -> 48 [] c = "1" -> 49 [] c = "2" -> 50 [] c = "a" -> 97
             [] c = "j" -> 106 [] c = "k" -> 107 [] c = "l" -> 108 [] c = "m" -> 109
             [] c = "x" -> 120

RECURSIVE BytesLess(_, _)
\* bytes.Compare(x, y) < 0
BytesLess(x, y) ==
  IF x = <<>> THEN y # <<>>
  ELSE IF y = <<>> THEN FALSE
  ELSE IF Head(x) # Head(y) THEN Code(Head(x)) < Code(Head(y))
  ELSE BytesLess(Tail(x), Tail(y))

\* bytes.HasPrefix(key, prefix)
HasPrefix(x, prefix) == Len(prefix) <= Len(x) /\ SubSeq(x, 1, Len(prefix)) = prefix

FirstKey(ks) == CHOOSE k \in ks : \A o \in ks \ {k} : BytesLess(KeyBytes(k), KeyBytes(o))

ScanReadsLive(snap, live) == live

\* What a cursor of a View transaction reads: the state committed when the
\* transaction began, whatever has committed since.
ScanReads(snap, live) == snap

\* d.ForEach: the View transaction begins; the cursor stands before the first key.
ForEachBegin(b) ==
  /\ sc.pc = "idle"
  /\ conn = "open"
  /\ sc' = [pc |-> "scan", op |-> "ForEach", b |-> b, prefix |-> <<>>, snap |-> store[b],
            left |-> DOMAIN store[b], seen |-> <<>>, coalesced |-> FALSE]
  /\ UNCHANGED <<now, store, exceptScan>>

CursorFromFirst(ks, prefix) == ks

\* c.Seek(bytePrefix): the keys from the first that is not below the prefix.
CursorSeek(ks, prefix) == {k \in ks : ~BytesLess(KeyBytes(k), prefix)}

\* d.Seek: the View transaction begins; c.Seek(prefix) stands at the first key
\* that is not below the prefix.
SeekBegin(b, prefix) ==
  /\ sc.pc = "idle"
  /\ conn = "open"
  /\ sc' = [pc |-> "scan", op |-> "Seek", b |-> b, prefix |-> prefix, snap |-> store[b],
            left |-> CursorSeek(DOMAIN store[b], prefix),
            seen |-> <<>>, coalesced |-> FALSE]
  /\ UNCHANGED <<now, store, exceptScan>>

\* The cursor's next key: the callback is invoked on it, or, for Seek at a key
\* without the prefix (and for both at the end), the transaction ends.
ScanStep ==
  /\ sc.pc = "scan"
  /\ IF sc.left = {} \/ (sc.op = "Seek" /\ ~HasPrefix(KeyBytes(FirstKey(sc.left)), sc.prefix))
       THEN sc' = [sc EXCEPT !.pc = "ret", !.left = {}]
       ELSE LET k == FirstKey(sc.left)
            IN sc' = [sc EXCEPT !.left = @ \ {k},
                                !.seen = Append(@, <<k, BucketGet(ScanReads(sc.snap, store[sc.b]), k)>>)]
  /\ UNCHANGED <<now, store, exceptScan>>

ScanReturn ==
  /\ sc.pc = "ret"
  /\ sc' = ScanIdle
  /\ UNCHANGED <<now, store, exceptScan>>

\* ---------------------------------------------------------- CreateBackup

\* The keys a state holds, each with its bucket.
Cells(st) == {c \in (DOMAIN st) \X Keys : c[2] \in DOMAIN st[c[1]]}

CopyReadsLive(snap, live) == live

\* What tx.CopyFile reads: the pages of the state committed when its View
\* transaction began, which the engine keeps while the transaction is open.
CopyReads(snap, live) == snap

\* The file with one more key and value written to it.
FileWrite(data, b, k, v) ==
  [x \in DOMAIN data \cup {b} |->
     IF x = b THEN BucketPut(IF b \in DOMAIN data THEN data[b] ELSE EmptyBucket, k, v)
     ELSE data[x]]

\* A caller of its own invokes d.CreateBackup(backupPath).
CreateBackupCall(p) ==
  /\ bk[p].pc = "idle"
  /\ bk' = [bk EXCEPT ![p].pc = "call"]
  /\ UNCHANGED <<now, store, backupFile, exceptBackup>>

\* d.db.View begins and tx.CopyFile opens the backup file, creating or
\* truncating it, and writes the transaction's meta pages: its buckets. On a
\* closed connection View returns its error and the function never runs.
CreateBackupBegin(p) ==
  /\ bk[p].pc = "call"
  /\ IF conn = "open"
       THEN /\ bk' = [bk EXCEPT ![p] = [pc |-> "copy", snap |-> store,
                                        left |-> Cells(store), changed |-> FALSE]]
            /\ backupFile' = [exists |-> TRUE,
                              data |-> [b \in DOMAIN store |-> EmptyBucket]]
       ELSE /\ bk' = [bk EXCEPT ![p].pc = "notopen"]
            /\ UNCHANGED backupFile
  /\ UNCHANGED <<now, store, exceptBackup>>

\* tx.CopyFile streams the data pages, here one key and value at a time.
CreateBackupCopy(p) ==
  /\ bk[p].pc = "copy"
  /\ \E c \in bk[p].left :
       /\ backupFile' = [backupFile EXCEPT !.data =
            FileWrite(@, c[1], c[2],
                      BucketGet(CopyReads(bk[p].snap, store)[c[1]], c[2]))]
       /\ bk' = [bk EXCEPT ![p].left = @ \ {c},
                           ![p].changed = @ \/ store # bk[p].snap]
  /\ UNCHANGED <<now, store, exceptBackup>>

\* The copy is complete; the View transaction ends and CreateBackup logs.
CreateBackupEnd(p) ==
  /\ bk[p].pc = "copy"
  /\ bk[p].left = {}
  /\ bk' = [bk EXCEPT ![p].pc = "done"]
  /\ UNCHANGED <<now, store, backupFile, exceptBackup>>

CreateBackupReturn(p) ==
  /\ bk[p].pc \in {"done", "notopen"}
  /\ bk' = [bk EXCEPT ![p] = BackupIdle]
  /\ UNCHANGED <<now, store, backupFile, exceptBackup>>

\* ------------------------------------ MaintenanceRefreshHandler and Close

\* The capacity InitCacheDB gives the channel d.quit.
\* The room of a channel made without a capacity.
QuitUnbuffered == Len(<<>>)

QuitCap == 2

\* The CreateBackup calls of the ticks, each in a goroutine of its own.
TickCalls == BackupCalls \ {"first"}

\* The goroutine starts: MaintenanceRefreshHandler calls d.CreateBackup.
LoopStart ==
  /\ loop = "ready"
  /\ bk["first"].pc = "idle"
  /\ loop' = "backup"
  /\ bk' = [bk EXCEPT !["first"].pc = "call"]
  /\ UNCHANGED <<now, store, backupFile, conn, quit, closer, cacheVars, sweepVars, batchVars, scanVars, bootVars, reqVars>>

LoopSkipsBackup ==
  /\ loop = "backup"
  /\ loop' = "sweep"
  /\ UNCHANGED <<now, store, bk, backupFile, conn, quit, closer, cacheVars, sweepVars, batchVars, scanVars, bootVars, reqVars>>

\* d.CreateBackup has returned; the handler goes on to d.CacheCleanup().
LoopAfterBackup ==
  /\ loop = "backup"
  /\ bk["first"].pc \in {"done", "notopen"}
  /\ loop' = "sweep"
  /\ bk' = [bk EXCEPT !["first"] = BackupIdle]
  /\ UNCHANGED <<now, store, backupFile, conn, quit, closer, cacheVars, sweepVars, batchVars, scanVars, bootVars, reqVars>>

\* d.CacheCleanup() has returned; the ticker is made and the handler selects.
LoopAfterSweep ==
  /\ loop = "sweep"
  /\ sw.pc = "done"
  /\ loop' = "select"
  /\ sw' = SweepIdle
  /\ UNCHANGED <<now, store, conn, quit, closer, cacheVars, batchVars, scanVars, backupVars, bootVars, reqVars>>

\* case <-tickerBackup.C: a goroutine is started to call d.CreateBackup.
LoopTick(p) ==
  /\ loop = "select"
  /\ bk[p].pc = "idle"
  /\ bk' = [bk EXCEPT ![p].pc = "call"]
  /\ UNCHANGED <<now, store, backupFile, lifeVars, cacheVars, sweepVars, batchVars, scanVars, bootVars, reqVars>>

\* case <-d.quit: the handler returns; its deferred calls close d.quit and stop
\* the ticker.
LoopQuit ==
  /\ loop = "select"
  /\ quit.len > 0
  /\ quit' = [len |-> quit.len - 1, closed |-> TRUE]
  /\ loop' = "exited"
  /\ UNCHANGED <<now, store, conn, closer, cacheVars, sweepVars, batchVars, scanVars, backupVars, bootVars, reqVars>>

\* Close is called.
CloseCall ==
  /\ closer = "idle"
  /\ closer' = "send"
  /\ UNCHANGED <<now, store, conn, quit, loop, cacheVars, sweepVars, batchVars, scanVars, backupVars, bootVars, reqVars>>

\* d.quit <- struct{}{}: the send goes through when the buffer has room.
CloseSend ==
  /\ closer = "send"
  /\ ~quit.closed
  /\ quit.len < QuitCap
  /\ quit' = [quit EXCEPT !.len = @ + 1]
  /\ closer' = "close"
  /\ UNCHANGED <<now, store, conn, loop, cacheVars, sweepVars, batchVars, scanVars, backupVars, bootVars, reqVars>>

\* d.db.Close(): the engine lets go of the file, which holds what was committed.
CloseDb ==
  /\ closer = "close"
  /\ conn' = "closed"
  /\ closer' = "done"
  /\ primary' = [exists |-> TRUE, valid |-> TRUE, data |-> store]
  /\ UNCHANGED <<now, store, quit, loop, boot, cacheVars, sweepVars, batchVars, scanVars, backupVars, reqVars>>

\* ------------------------------------------ InitCacheDB and RestoreBackup

\* What bolt.Open can make of the primary file: it creates a missing file; a
\* file may be locked by another process for longer than the timeout; a file
\* that is no valid database makes it return an error or panic.
OpenOutcomes(f) ==
  IF ~f.exists THEN {"ok"}
  ELSE IF f.valid THEN {"ok", "timeout"}
  ELSE {"timeout", "invalid", "panic"}

\* CreateBoltDB's deferred function acts when recover() returns a panic.
Recovers(outcome) == outcome = "panic"

\* CreateBoltDB's way after bolt.Open: the deferred recovery, the error
\* return, or the return of the connection.
AfterOpen(outcome) ==
  IF Recovers(outcome) THEN "recovered"
  ELSE IF outcome # "ok" THEN "failed"
  ELSE "opened"

\* CreateBoltDB calls bolt.Open.
BoltOpen ==
  /\ boot.pc = "start"
  /\ \E o \in OpenOutcomes(primary) :
       /\ boot' = [boot EXCEPT !.pc = AfterOpen(o), !.outcome = o]
       /\ IF o = "ok"
            THEN conn' = "open" /\ store' = primary.data /\ primary' = InUse
            ELSE UNCHANGED <<conn, store, primary>>
  /\ UNCHANGED <<now, quit, loop, closer, cacheVars, sweepVars, batchVars, scanVars, backupVars, reqVars>>

\* CreateBoltDB returned (nil, err): InitCacheDB returns no handle.
InitReturnsNil ==
  /\ boot.pc = "failed"
  /\ boot' = [boot EXCEPT !.pc = "returned", !.handle = "nil", !.err = "database not created"]
  /\ UNCHANGED <<now, store, primary, lifeVars, cacheVars, sweepVars, batchVars, scanVars, backupVars, reqVars>>

\* CreateBoltDB returned the connection: InitCacheDB makes cacheDatabase, with
\* its quit channel, and goes through CacheBuckets.
InitMakesHandle ==
  /\ boot.pc = "opened"
  /\ boot' = [boot EXCEPT !.pc = "check", !.i = 1, !.handle = "cacheDatabase"]
  /\ quit' = [len |-> 0, closed |-> FALSE]
  /\ UNCHANGED <<now, store, primary, conn, loop, closer, cacheVars, sweepVars, batchVars, scanVars, backupVars, reqVars>>

\* tx.CreateBucketIfNotExists(bucket)
CreateBucketIfNotExists(st, b) ==
  [x \in DOMAIN st \cup {b} |-> IF x \in DOMAIN st THEN st[x] ELSE EmptyBucket]

\* cacheDatabase.CheckBucket(bucket): an Update transaction, which commits or
\* returns the engine's error; on an error InitCacheDB returns the handle and
\* the error.
InitCheckBucket ==
  /\ boot.pc = "check"
  /\ boot.i <= Len(CacheBuckets)
  /\ \/ /\ store' = CreateBucketIfNotExists(store, CacheBuckets[boot.i])
        /\ boot' = [boot EXCEPT !.i = @ + 1]
     \/ /\ boot' = [boot EXCEPT !.pc = "returned", !.err = "EngineFailure"]
        /\ UNCHANGED store
  /\ UNCHANGED <<now, primary, lifeVars, cacheVars, sweepVars, batchVars, scanVars, backupVars, reqVars>>

\* return cacheDatabase, nil
InitReturns ==
  /\ boot.pc = "check"
  /\ boot.i > Len(CacheBuckets)
  /\ boot' = [boot EXCEPT !.pc = "returned", !.err = "nil"]
  /\ UNCHANGED <<now, store, primary, lifeVars, cacheVars, sweepVars, batchVars, scanVars, backupVars, reqVars>>

\* A caller of its own invokes RestoreBackup(databasePath, backupPath) while no
\* connection holds the primary file; pre is the backup file it finds.
RestoreBackupCall ==
  /\ boot.pc = "start"
  /\ conn = "closed"
  /\ boot' = [pc |-> "recovered", outcome |-> "call", i |-> 0, handle |-> "none",
              err |-> "none", restore |-> "none", pre |-> backupFile]
  /\ UNCHANGED <<now, store, primary, lifeVars, cacheVars, sweepVars, batchVars, scanVars, backupVars, reqVars>>

\* RestoreBackup returns to that caller.
RestoreBackupReturn ==
  /\ boot.pc = "exit"
  /\ boot.outcome = "call"
  /\ boot' = [boot EXCEPT !.pc = "returned"]
  /\ UNCHANGED <<now, store, primary, lifeVars, cacheVars, sweepVars, batchVars, scanVars, backupVars, reqVars>>

RestoredNothing(r, backup) == NoPrimary

\* RestoreBackup's first half, entered from the deferred recovery: the
\* primary file, if there is one, is removed, or, when os.Remove fails,
\* RestoreBackup returns.
RestoreRemove ==
  /\ boot.pc = "recovered"
  /\ IF primary.exists
       THEN \/ primary' = NoPrimary /\ boot' = [boot EXCEPT !.pc = "copy", !.restore = "removed"]
            \/ UNCHANGED primary /\ boot' = [boot EXCEPT !.pc = "exit", !.restore = "remove failed"]
       ELSE UNCHANGED primary /\ boot' = [boot EXCEPT !.pc = "copy", !.restore = "removed"]
  /\ UNCHANGED <<now, store, lifeVars, cacheVars, sweepVars, batchVars, scanVars, backupVars, reqVars>>

\* The ways RestoreBackup's second half can go.
CopyResults == {"restored", "open failed", "create failed", "copy failed", "sync failed"}

\* The primary file after the second half went as r: os.Create makes (or
\* empties) the file, io.Copy fills it, Sync makes it durable.
Restored(r, backup) ==
  CASE r \in {"restored", "sync failed"} -> [exists |-> TRUE, valid |-> TRUE, data |-> backup.data]
    [] r = "copy failed" -> Corrupt
    [] r \in {"open failed", "create failed"} -> NoPrimary

\* RestoreBackup's second half: a backup file, if there is one, is copied to
\* the primary path.
RestoreCopy ==
  /\ boot.pc = "copy"
  /\ IF backupFile.exists
       THEN \E r \in CopyResults :
              /\ primary' = Restored(r, backupFile)
              /\ boot' = [boot EXCEPT !.pc = "exit", !.restore = r]
       ELSE UNCHANGED primary /\ boot' = [boot EXCEPT !.pc = "exit", !.restore = "no backup"]
  /\ UNCHANGED <<now, store, lifeVars, cacheVars, sweepVars, batchVars, scanVars, backupVars, reqVars>>

\* os.Exit(1)
Exit ==
  /\ boot.pc = "exit"
  /\ boot.outcome = "panic"
  /\ boot' = [boot EXCEPT !.pc = "exited"]
  /\ UNCHANGED <<now, store, primary, lifeVars, cacheVars, sweepVars, batchVars, scanVars, backupVars, reqVars>>

\* ------------------------------------------------------- specification

\* Nothing is in progress and the connection is open.
Quiet ==
  /\ th = [t \in Readers |-> Idle]
  /\ lastSet = NoWrite
  /\ sw = SweepIdle
  /\ batchQ = <<>>
  /\ sc = ScanIdle
  /\ bk = [p \in BackupCalls |-> BackupIdle]
  /\ backupFile = NoFile
  /\ conn = "open"
  /\ quit = [len |-> 0, closed |-> FALSE]
  /\ loop = "ready"
  /\ closer = "idle"
  /\ boot = BootDone
  /\ primary = InUse
  /\ req = NoCall

Init ==
  /\ now \in ClockStarts
  /\ store = [b \in {"cache"} |-> EmptyBucket]
  /\ Quiet

Next ==
  \/ \E b \in DOMAIN store, k \in Keys, s \in 0..MaxTtl, v \in Payloads :
       SetCachedBytes(b, s, k, v)
  \/ \E b \in DOMAIN store, k \in Keys, v \in RawValues : SetBytes(b, k, v)
  \/ \E b \in DOMAIN store, k \in Keys : Delete(b, k)
  \/ \E t \in Readers, b \in DOMAIN store, k \in Keys : GetCachedView(t, b, k)
  \/ \E t \in Readers : GetCachedDelete(t)
  \/ \E t \in Readers : Return(t)
  \/ \E t \in Readers, b \in DOMAIN store, k \in Keys : GetBytes(t, b, k)
  \/ \E t \in Readers : GetReturn(t)
  \/ Tick

Spec == Init /\ [][Next]_vars

\* CacheCleanup alone: the store holds any mix of records when the sweep
\* starts, and nothing else writes.
SweepValues(t) ==
  { CachedValue(t - 1, 0, <<"x">>),
    CachedValue(t + MaxTick, 1, <<"x">>),
    <<"0","0","0","0","0","0","0","0","0","0","|","x">>,
    <<"-","0","0","0","0","0","0","0","0","1","|","x">> }

Buckets(t) ==
  UNION {[ks -> SweepValues(t)] : ks \in SUBSET Keys}

InitSweep ==
  /\ now \in ClockStarts
  /\ \E bs \in SUBSET {CacheBuckets[i] : i \in 1..Len(CacheBuckets)} :
       store \in [bs -> Buckets(now)]
  /\ Quiet

NextSweep ==
  \/ CacheCleanupStart
  \/ CacheCleanupExists
  \/ CacheCleanupScan
  \/ BatchRun
  \/ CacheCleanupReturn
  \/ Tick

SpecSweep == InitSweep /\ [][NextSweep]_vars

\* CacheCleanup beside foreground SetCached calls.
NextRace ==
  \/ CacheCleanupStart
  \/ CacheCleanupExists
  \/ CacheCleanupScan
  \/ BatchRun
  \/ CacheCleanupReturn
  \/ \E b \in DOMAIN store, k \in Keys, s \in 0..MaxTtl : SetCachedBytes(b, s, k, <<"x">>)
  \/ Tick

SpecRace == Init /\ [][NextRace]_vars

\* BatchSet and BatchDelete callers beside ForEach and Seek callers.
BatchValues == {<<"a">>, <<"b">>}
BatchMaps == UNION {[ks -> {v}] : ks \in SUBSET Keys \ {{}}, v \in BatchValues}
Prefixes == {<<"k">>, <<"k", "2">>}

NextBatch ==
  \/ \E b \in DOMAIN store, m \in BatchMaps : BatchSet(b, m)
  \/ \E b \in DOMAIN store, ks \in SUBSET Keys \ {{}} : BatchDelete(b, ks)
  \/ BatchRun
  \/ \E b \in DOMAIN store : ForEachBegin(b)
  \/ \E b \in DOMAIN store, prefix \in Prefixes : SeekBegin(b, prefix)
  \/ ScanStep
  \/ ScanReturn

InitBatch == Init /\ now = 1700000000

SpecBatch == InitBatch /\ [][NextBatch]_vars

\* One CreateBackup call beside Set, Delete and Batch calls.
NextBackup ==
  \/ CreateBackupCall("first")
  \/ CreateBackupBegin("first")
  \/ CreateBackupCopy("first")
  \/ CreateBackupEnd("first")
  \/ CreateBackupReturn("first")
  \/ \E b \in DOMAIN store, k \in Keys, v \in BatchValues : SetBytes(b, k, v)
  \/ \E b \in DOMAIN store, k \in Keys : Delete(b, k)
  \/ \E b \in DOMAIN store, v \in BatchValues : BatchSet(b, [k \in Keys |-> v])
  \/ \E b \in DOMAIN store : BatchDelete(b, Keys)
  \/ BatchRun

SpecBackup == InitBatch /\ [][NextBackup]_vars

\* One database from the start of MaintenanceRefreshHandler to its Close: the
\* handler, the backups of its ticks, and the Close caller.
InitLife ==
  /\ now = 1700000000
  /\ store \in [{"cache"} -> Buckets(now)]
  /\ Quiet

NextLife ==
  \/ LoopStart
  \/ \E p \in BackupCalls : CreateBackupBegin(p)
  \/ \E p \in BackupCalls : CreateBackupCopy(p)
  \/ \E p \in BackupCalls : CreateBackupEnd(p)
  \/ \E p \in TickCalls : CreateBackupReturn(p)
  \/ LoopAfterBackup
  \/ loop = "sweep" /\ CacheCleanupStart
  \/ CacheCleanupExists
  \/ CacheCleanupScan
  \/ BatchRun
  \/ LoopAfterSweep
  \/ \E p \in TickCalls : LoopTick(p)
  \/ LoopQuit
  \/ CloseCall
  \/ CloseSend
  \/ CloseDb

SpecLife == InitLife /\ [][NextLife]_vars

\* Every goroutine that can run does run, and db.Batch's timer fires.
FairLife ==
  /\ SpecLife
  /\ WF_vars(LoopStart)
  /\ \A p \in BackupCalls :
       WF_vars(CreateBackupBegin(p)) /\ WF_vars(CreateBackupCopy(p)) /\ WF_vars(CreateBackupEnd(p))
  /\ WF_vars(LoopAfterBackup)
  /\ WF_vars(loop = "sweep" /\ CacheCleanupStart)
  /\ WF_vars(CacheCleanupExists)
  /\ WF_vars(CacheCleanupScan)
  /\ WF_vars(BatchRun)
  /\ WF_vars(LoopAfterSweep)
  /\ WF_vars(LoopQuit)
  /\ WF_vars(CloseSend)
  /\ WF_vars(CloseDb)

\* InitCacheDB on any primary file and any backup file.
FileData == [{"cache"} -> UNION {[ks -> BatchValues] : ks \in SUBSET Keys}]

InitOpen ==
  /\ now = 1700000000
  /\ store = NoBuckets
  /\ th = [t \in Readers |-> Idle]
  /\ lastSet = NoWrite
  /\ sw = SweepIdle
  /\ batchQ = <<>>
  /\ sc = ScanIdle
  /\ bk = [p \in BackupCalls |-> BackupIdle]
  /\ backupFile \in {NoFile} \cup {[exists |-> TRUE, data |-> d] : d \in FileData}
  /\ conn = "closed"
  /\ quit = [len |-> 0, closed |-> FALSE]
  /\ loop = "ready"
  /\ closer = "idle"
  /\ req = NoCall
  /\ boot = BootStart
  /\ primary \in {NoPrimary, Corrupt}
                   \cup {[exists |-> TRUE, valid |-> TRUE, data |-> d] : d \in FileData}

NextOpen ==
  \/ BoltOpen
  \/ InitReturnsNil
  \/ InitMakesHandle
  \/ InitCheckBucket
  \/ InitReturns
  \/ RestoreRemove
  \/ RestoreCopy
  \/ Exit

SpecOpen == InitOpen /\ [][NextOpen]_vars

\* RestoreBackup called on any primary file and any backup file.
NextRestore ==
  \/ RestoreBackupCall
  \/ RestoreRemove
  \/ RestoreCopy
  \/ RestoreBackupReturn

SpecRestore == InitOpen /\ [][NextRestore]_vars

\* BatchDelete called twice on any bucket content, with nothing else writing.
InitTwice ==
  /\ now = 1700000000
  /\ store \in FileData
  /\ Quiet

NextTwice ==
  \/ \E b \in DOMAIN store, keys \in SUBSET Keys : DeleteTwiceCall(b, keys)
  \/ BatchRun
  \/ DeleteTwiceAgain
  \/ DeleteTwiceReturn

SpecTwice == InitTwice /\ [][NextTwice]_vars

\* RecreateBucket beside ForEach and Seek callers, on any bucket contents.
BucketNames == {CacheBuckets[i] : i \in 1..Len(CacheBuckets)}

InitRecreate ==
  /\ now = 1700000000
  /\ \E bs \in SUBSET BucketNames \ {{}} :
       store \in [bs -> UNION {[ks -> {<<"a">>}] : ks \in SUBSET Keys}]
  /\ Quiet

NextRecreate ==
  \/ \E b \in BucketNames : RecreateBucket(b)
  \/ CallReturn
  \/ \E b \in DOMAIN store : ForEachBegin(b)
  \/ \E b \in DOMAIN store, prefix \in Prefixes : SeekBegin(b, prefix)
  \/ ScanStep
  \/ ScanReturn

SpecRecreate == InitRecreate /\ [][NextRecreate]_vars

\* Seek alone, over any bucket content and prefix.
SeekKeys == {"a", "k1", "k10", "k2", "m"}
SeekPrefixes ==
  {<<>>, <<"j">>, <<"k">>, <<"k", "1">>, <<"k", "2">>, <<"k", "1", "x">>, <<"l">>, <<"m">>}

InitSeek ==
  /\ now = 1700000000
  /\ store \in [{"cache"} -> UNION {[ks -> {<<"a">>}] : ks \in SUBSET SeekKeys}]
  /\ Quiet

NextSeek ==
  \/ \E b \in DOMAIN store, prefix \in SeekPrefixes : SeekBegin(b, prefix)
  \/ ScanStep
  \/ ScanReturn

SpecSeek == InitSeek /\ [][NextSeek]_vars

\* Batch calls in which the engine fails some per-key operation, beside
\* batch calls in which it does not.
NextFailing ==
  \/ \E b \in DOMAIN store, m \in BatchMaps, bad \in SUBSET Keys : BatchSetFailing(b, m, bad)
  \/ \E b \in DOMAIN store, keys \in SUBSET Keys, bad \in SUBSET Keys :
       BatchDeleteFailing(b, keys, bad)
  \/ CallReturn
  \/ \E b \in DOMAIN store, m \in BatchMaps : BatchSet(b, m)
  \/ \E b \in DOMAIN store, ks \in SUBSET Keys \ {{}} : BatchDelete(b, ks)
  \/ BatchRun

SpecFailing == InitTwice /\ [][NextFailing]_vars

\* Writers on the keys of a bucket, until the handle is closed and after.
WritePayloads == {<<>>, <<"a">>, <<"b">>, <<"a", "b">>}

NextWriter ==
  \/ \E b \in DOMAIN store, k \in Keys, p \in WritePayloads : Write(b, k, p)
  \/ CallReturn
  \/ CloseCall
  \/ CloseSend
  \/ CloseDb

SpecWriter == InitBatch /\ [][NextWriter]_vars

\* Has on buckets that hold any mix of records, while the clock advances.
NextHas ==
  \/ \E b \in DOMAIN store, k \in Keys : HasCall(b, k)
  \/ CallReturn
  \/ \E b \in DOMAIN store, k \in Keys : SetBytes(b, k, <<>>)
  \/ Tick

SpecHas == InitSweep /\ [][NextHas]_vars

\* ------------------------------------------------------------- claims

\* A GetCachedBytes call passing from its View transaction to its result.
Reads(t) == th[t].pc = "idle" /\ th'[t].pc \in {"ret", "delete"}
\* A GetCachedBytes call committing its delete.
Deletes(t) == th[t].pc = "delete" /\ th'[t].pc = "ret"

\* C1: after SetCached(b, ttl, k, v) with ttl > 0 at clock t and no later write,
\* GetCached(b, k) before t+ttl returns v with no error and leaves k stored;
\* after t+ttl it returns the Expired error and k is absent afterwards.
C1_SetThenGet ==
  [][\A t \in Readers :
       /\ (Reads(t) /\ lastSet.op = "SetCached" /\ lastSet.seconds > 0
             /\ th'[t].b = lastSet.b /\ th'[t].k = lastSet.k)
          => /\ now < lastSet.at + lastSet.seconds
                  => /\ th'[t].pc = "ret"
                     /\ th'[t].err = "nil"
                     /\ th'[t].val = lastSet.v
                     /\ lastSet.k \in DOMAIN store'[lastSet.b]
             /\ now > lastSet.at + lastSet.seconds
                  => th'[t].pc = "delete" /\ th'[t].err = "Key Expired"
       /\ (Deletes(t) /\ th[t].err = "Key Expired")
          => th[t].k \notin DOMAIN store'[th[t].b]]_vars

\* C2: GetCached on a non-empty stored value whose decoded expiry is 0 (a short
\* value, an unparsable prefix, a literal zero) returns the Invalid error and
\* deletes the key, so that Has is false afterwards.
C2_InvalidDeleted ==
  [][\A t \in Readers :
       /\ (Reads(t) /\ Len(th'[t].read) > 0 /\ ParseCacheItem(th'[t].read).expire = 0)
          => th'[t].pc = "delete" /\ th'[t].err = "Invalid Key"
       /\ (Deletes(t) /\ th[t].err = "Invalid Key")
          => th'[t].err = "Invalid Key" /\ ~Has(store', th[t].b, th[t].k)]_vars

C2_Witness ==
  \E t \in Readers :
    /\ th[t].pc = "ret"
    /\ th[t].err = "Invalid Key"
    /\ Len(th[t].read) >= MinItemLen
    /\ ~Has(store, th[t].b, th[t].k)

\* The records CacheCleanup is said to remove, and what a sweep at clock t
\* leaves of a store, under a reading of "expired".
Swept(st, t, Removes(_, _)) ==
  [b \in DOMAIN st |->
     IF \E i \in 1..Len(CacheBuckets) : CacheBuckets[i] = b
       THEN [k \in {x \in DOMAIN st[b] : ~Removes(ParseCacheItem(st[b][x]).expire, t)}
               |-> st[b][k]]
       ELSE st[b]]

ZeroOrPast(expire, t) == expire = 0 \/ expire < t
ZeroOrPastPositive(expire, t) == expire = 0 \/ (expire > 0 /\ expire < t)

C8_DeletesWhatItRead ==
  [][\A t \in Readers :
       (Deletes(t) /\ th[t].err = "Key Expired" /\ lastSet.op = "SetCached"
          /\ lastSet.b = th[t].b /\ lastSet.k = th[t].k)
       => BucketGet(store[th[t].b], th[t].k) = th[t].read]_vars

\* C9: every key the sweep deletes holds, when deleted, a record whose expiry is
\* 0 or < now; a key re-written with a valid expiry after the scan stays stored.
C9_SweepDeletesOnlyExpired ==
  [][\A i \in 1..Len(batchQ) :
       (batchQ[i].who = "sweep" /\ batchQ' = <<>>)
       => \A k \in batchQ[i].keys :
            k \in DOMAIN store[batchQ[i].b]
            => ZeroOrPast(ParseCacheItem(store[batchQ[i].b][k]).expire, sw.now)]_vars

\* What one batch transaction makes of key k of bucket b: the entry of the last
\* call of the batch that names k, and nothing for a key no call names.
Touches(c, b, k) == c.b = b /\ k \in (IF c.kind = "set" THEN DOMAIN c.m ELSE c.keys)
BatchLeaves(q, old, new, b, k) ==
  LET touching == {i \in 1..Len(q) : Touches(q[i], b, k)}
  IN IF touching = {}
       THEN /\ k \in DOMAIN new[b] <=> k \in DOMAIN old[b]
            /\ k \in DOMAIN old[b] => new[b][k] = old[b][k]
       ELSE LET c == q[CHOOSE i \in touching : \A j \in touching : j <= i]
            IN IF c.kind = "set" THEN k \in DOMAIN new[b] /\ new[b][k] = c.m[k]
               ELSE k \notin DOMAIN new[b]

\* C7: BatchSet and BatchDelete apply as one atomic unit, also when coalesced:
\* the transaction of db.Batch installs every entry of every call it holds in
\* one step, and a ForEach or Seek that runs meanwhile observes, for all the
\* keys it visits, the one state committed when it began (none of the batch).
C7_BatchAtomic ==
  [][/\ (batchQ # <<>> /\ batchQ' = <<>>)
          => \A b \in DOMAIN store : \A k \in Keys : BatchLeaves(batchQ, store, store', b, k)
     /\ (sc.pc = "scan" /\ sc'.pc = "ret")
          => \A i \in 1..Len(sc'.seen) :
               /\ sc'.seen[i][1] \in DOMAIN sc.snap
               /\ sc'.seen[i][2] = sc.snap[sc'.seen[i][1]]]_vars

C7_Witness ==
  /\ sc.pc = "ret"
  /\ sc.coalesced
  /\ Len(sc.seen) = 2
  /\ \E k \in DOMAIN sc.snap : k \in DOMAIN store[sc.b] /\ store[sc.b][k] # sc.snap[k]
  /\ \E k \in DOMAIN sc.snap : k \notin DOMAIN store[sc.b]

\* C10: when a CreateBackup call completes, the backup file equals the state
\* committed at one single point in time during the call, the begin of its View
\* transaction, whatever Set, Delete or Batch calls committed during the copy.
C10_BackupIsSnapshot ==
  \A p \in BackupCalls : bk[p].pc = "done" => backupFile = [exists |-> TRUE, data |-> bk[p].snap]

C10_Witness ==
  /\ bk["first"].pc = "done"
  /\ bk["first"].changed
  /\ DOMAIN bk["first"].snap["cache"] = Keys
  /\ backupFile.data # store

\* The handler, or a backup it started, is at work.
LoopRunning ==
  \/ loop \in {"backup", "sweep", "select"}
  \/ \E p \in BackupCalls : bk[p].pc # "idle"

\* C5: the connection is closed only once MaintenanceRefreshHandler has
\* exited: it is never closed while the handler or a backup it started runs.
C5_ClosedAfterLoop == conn = "closed" => ~LoopRunning

\* Close has put its signal on d.quit.
Signalled == closer \in {"close", "done"}

\* C6: Close's send on d.quit never waits, the signal stays on the channel
\* until the handler takes it, and the handler then exits.
C6_SignalTaken ==
  /\ [](closer = "send" => ~quit.closed /\ quit.len < QuitCap)
  /\ [](Signalled /\ loop # "exited" => quit.len > 0)
  /\ (Signalled ~> loop = "exited")

C6_Witness ==
  /\ closer = "done"
  /\ loop = "exited"
  /\ quit.closed
  /\ \E p \in TickCalls : bk[p].pc = "notopen"

\* bolt.Open failed on the engine file.
OpenFailed == boot.outcome \in {"timeout", "invalid", "panic"}

\* C4: when opening the engine file fails, by a lock timeout or by corruption
\* reported as an error or as a panic, the open path runs RestoreBackup and
\* terminates the process: control never returns to the caller with a nil
\* handle or an error.
C4_OpenFailureExits ==
  OpenFailed => /\ boot.pc # "returned"
                /\ boot.handle = "none" /\ boot.err = "none"
                /\ boot.pc = "exited" => boot.restore # "none"

Gets(t) == th[t].pc = "idle" /\ th'[t].pc = "got"

\* C12: Get and GetCached on a key that is absent, or whose stored value is
\* zero-length, return a NotFound error, never success with an empty value.
C12_AbsentIsNotFound ==
  [][\A t \in Readers :
       ((Gets(t) \/ Reads(t)) /\ Len(th'[t].read) = 0)
       => th'[t].err = "NotFound"]_vars

\* C13: BatchDelete(b, keys) is idempotent: for every bucket content and key
\* set, keys that are not present included, the bucket after the second call
\* equals the bucket after the first, which holds none of the keys, and the
\* keys outside the set are unchanged by either call.
C13_BatchDeleteIdempotent ==
  (req.pc = "done" /\ req.op = "BatchDelete twice")
  => /\ req.twice = req.once
     /\ DOMAIN req.once = DOMAIN req.pre \ req.keys
     /\ \A k \in DOMAIN req.once : req.once[k] = req.pre[k]

C13_Witness ==
  /\ req.pc = "done"
  /\ req.op = "BatchDelete twice"
  /\ req.keys \cap DOMAIN req.pre # {}
  /\ DOMAIN req.pre \ req.keys # {}
  /\ req.twice = req.once

\* RecreateBucket returning without an error.
Recreates == req.pc = "idle" /\ req'.pc = "done" /\ req'.op = "RecreateBucket" /\ req'.err = "nil"

\* C14: after RecreateBucket(b) succeeds on an existing bucket, the bucket
\* exists and a ForEach(b, ...) begun afterwards invokes its callback zero
\* times, whatever the bucket held; its one transaction never leaves the
\* bucket missing and changes no other bucket.
C14_RecreateEmpties ==
  /\ [][Recreates => /\ req'.b \in DOMAIN store
                     /\ DOMAIN store' = DOMAIN store
                     /\ store'[req'.b] = EmptyBucket
                     /\ \A o \in DOMAIN store \ {req'.b} : store'[o] = store[o]]_vars
  /\ []((req.pc = "done" /\ req.op = "RecreateBucket" /\ req.err = "nil" /\ ~req.during
           /\ sc.pc = "ret" /\ sc.op = "ForEach" /\ sc.b = req.b)
        => sc.seen = <<>>)

C14_Witness ==
  /\ req.pc = "done" /\ req.op = "RecreateBucket" /\ req.err = "nil" /\ ~req.during
  /\ sc.pc = "ret" /\ sc.op = "ForEach" /\ sc.b = req.b
  /\ sc.seen = <<>>
  /\ DOMAIN req.pre = Keys
  /\ \E o \in DOMAIN store \ {req.b} : DOMAIN store[o] = Keys

\* C15: Seek(b, prefix, callback) invokes the callback exactly once for each
\* key of b that starts with prefix, in ascending key order, with the key's
\* value, and never for a key that does not start with prefix.
C15_SeekVisitsPrefix ==
  (sc.pc = "ret" /\ sc.op = "Seek")
  => LET n == Len(sc.seen)
     IN /\ {sc.seen[i][1] : i \in 1..n}
             = {k \in DOMAIN sc.snap : HasPrefix(KeyBytes(k), sc.prefix)}
        /\ \A i, j \in 1..n :
             i < j => BytesLess(KeyBytes(sc.seen[i][1]), KeyBytes(sc.seen[j][1]))
        /\ \A i \in 1..n : sc.seen[i][2] = sc.snap[sc.seen[i][1]]

C15_Witness ==
  /\ sc.pc = "ret"
  /\ sc.op = "Seek"
  /\ DOMAIN sc.snap = SeekKeys
  /\ sc.prefix = <<"k", "1">>
  /\ Len(sc.seen) = 2

\* C16: when the write or delete of one key fails inside BatchSet,
\* BatchSetBytes or BatchDelete, the call returns that error: a batch call
\* never returns success after one of its per-key operations failed.
C16_BatchFailureReturned ==
  (req.pc = "done" /\ req.op \in {"BatchSet", "BatchDelete"} /\ req.bad # {})
  => req.err # "nil"

\* C17: only expiry > now is a valid hit: GetCached on a record whose expiry
\* equals the clock does not return the payload; it returns an error and
\* deletes the key.
C17_ExpiryNowIsNoHit ==
  [][\A t \in Readers :
       (Reads(t) /\ Len(th'[t].read) >= MinItemLen
          /\ ParseCacheItem(th'[t].read).expire = now)
       => th'[t].pc = "delete" /\ th'[t].err # "nil" /\ th'[t].val = <<>>]_vars

\* C18: MaintenanceRefreshHandler first makes its one CreateBackup call, then
\* runs exactly one CacheCleanup, each completed before the next begins and
\* both before any backup of a tick starts; afterwards ticks start backups
\* only, and no sweep runs again.
C18_BackupThenOneSweep ==
  [][/\ (bk["first"].pc = "idle" /\ bk'["first"].pc # "idle") => loop = "ready"
     /\ (loop = "backup" /\ loop' # "backup")
          => loop' = "sweep" /\ bk["first"].pc \in {"done", "notopen"} /\ sw.pc = "idle"
     /\ (sw.pc = "idle" /\ sw'.pc # "idle") => loop = "sweep" /\ bk["first"].pc = "idle"
     /\ (loop = "sweep" /\ loop' # "sweep") => loop' = "select" /\ sw.pc = "done"
     /\ loop \in {"select", "exited"} => loop' \in {"select", "exited"} /\ sw' = SweepIdle
     /\ \A p \in TickCalls : (bk[p].pc = "idle" /\ bk'[p].pc # "idle") => loop = "select"]_vars

C18_Witness ==
  /\ loop = "sweep"
  /\ sw.pc = "done"
  /\ backupFile = [exists |-> TRUE, data |-> sw.pre]
  /\ store # sw.pre
  /\ \A p \in BackupCalls : bk[p].pc = "idle"

\* C19: each DBWriter.Write(p) is one upsert that sets the writer's key to
\* exactly p, so that after Writes p1..pn the key holds pn and not their
\* concatenation; Write reports n = len(p), and a nil error only when the
\* upsert committed (otherwise the key holds what it held).
C19_WriteSetsKey ==
  (req.pc = "done" /\ req.op = "Write")
  => /\ req.n = Len(req.p)
     /\ req.err = "nil" <=> req.open
     /\ req.err = "nil" => BucketGet(store[req.b], req.k) = req.p
     /\ req.err # "nil" => BucketGet(store[req.b], req.k) = req.pre

C19_Witness ==
  /\ req.pc = "done"
  /\ req.op = "Write"
  /\ req.err = "nil"
  /\ req.pre = <<"a">>
  /\ req.p = <<"b">>
  /\ store[req.b][req.k] = <<"b">>

\* C20: for every clock value and ttl with 0 <= now+ttl < 10^10, SetCached
\* stores exactly 10 zero-padded decimal digits of now+ttl, one separator byte
\* and the payload, so that ParseCacheItem of the stored value returns
\* (now+ttl, payload).
C20_TenDigitsRoundTrip ==
  [][(lastSet'.op = "SetCached" /\ lastSet' # lastSet)
     => LET stored == store'[lastSet'.b][lastSet'.k]
        IN /\ Len(stored) = ExpiryWidth + 1 + Len(lastSet'.v)
           /\ \A i \in 1..ExpiryWidth : stored[i] \in DigitChars
           /\ ParseCacheItem(stored).expire = lastSet'.at + lastSet'.seconds
           /\ ParseCacheItem(stored).payload = lastSet'.v]_vars

\* C21: Has(b, k) returns true iff k holds a non-empty value, whatever its
\* expiry: a cached record whose expiry has passed and which is still stored
\* makes Has return true; Has never modifies the store.
C21_HasIgnoresExpiry ==
  [][(req.pc = "idle" /\ req'.pc = "done" /\ req'.op = "Has")
     => /\ store' = store
        /\ req'.ret <=> /\ req'.k \in DOMAIN store[req'.b]
                        /\ Len(store[req'.b][req'.k]) > 0]_vars

C21_Witness ==
  /\ req.pc = "done"
  /\ req.op = "Has"
  /\ req.ret
  /\ req.k \in DOMAIN store[req.b]
  /\ ParseCacheItem(store[req.b][req.k]).expire \in 1..(now - 1)

\* C22: RecreateBucket(b) on a bucket that does not exist returns an error and
\* leaves the store unchanged: b is not created and no other bucket changes.
C22_RecreateMissingFails ==
  [][(req.pc = "idle" /\ req'.pc = "done" /\ req'.op = "RecreateBucket"
        /\ req'.b \notin DOMAIN store)
     => /\ req'.err # "nil"
        /\ req'.b \notin DOMAIN store'
        /\ store' = store]_vars

C22_Witness ==
  /\ req.pc = "done"
  /\ req.op = "RecreateBucket"
  /\ req.err = "bucket not found"
  /\ req.b \notin DOMAIN store
  /\ \E o \in DOMAIN store : DOMAIN store[o] = Keys

\* C23: at any time at most one CreateBackup is writing the handle's backup
\* file: between tx.CopyFile opening the file and the end of its copy no
\* other CreateBackup of the handler, initial or started by a tick, has the
\* file open.
C23_OneBackupWriter ==
  Cardinality({p \in BackupCalls : bk[p].pc = "copy"}) <= 1

====
